---- MODULE Spec2Model ----
(***************************************************************************)
(* Movie_Management: the Express/Mongoose movie and auth controllers       *)
(* (backend/controllers), the movie routes' validation, and the in-memory  *)
(* auth server, as a state machine.  Each awaited storage call of a        *)
(* handler is one atomic step, so the steps of concurrent requests         *)
(* interleave exactly where the handlers await.  A handler's first step    *)
(* takes the request (user, params, body, query) as its input.             *)
(***************************************************************************)
EXTENDS Integers, Sequences, FiniteSets, Bags, TLC

\* ------------------------------------------------------------------ bounds
MaxMovies == 2
MaxReq == 2

\* ------------------------------------------------------------ value domains
UserIds == {"u1", "u2"}
NoUser == "none"
MovieIds == 1..MaxMovies
\* req.params.id is any string of the URL; this one is no 24-hex-digit ObjectId.
MalformedId == 0
ParamIds == MovieIds \cup {MalformedId}
Undefined == "undefined"
NoDate == 0
DateNow == 1

\* ------------------------------------------------------- documents, bodies
Has(b, f) == f \in DOMAIN b
Field(b, f, d) == IF Has(b, f) THEN b[f] ELSE d
With(b, f, v) == [x \in DOMAIN b \cup {f} |-> IF x = f THEN v ELSE b[x]]

NoDoc ==
  [id |-> 0, addedBy |-> NoUser, duration |-> 0, year |-> 0, genres |-> {},
   watched |-> FALSE, watchDate |-> NoDate, rating |-> 0, createdAt |-> 0]

\* express-validator's movieValidation, on the fields the model carries.
validationResult(body) ==
  /\ Has(body, "year") /\ body.year >= 1888
  /\ Has(body, "genres") /\ body.genres # {}
  /\ Has(body, "duration") /\ body.duration >= 1

\* { ...req.body, addedBy: req.user.id }
movieData(u, body) ==
  [f \in DOMAIN body \cup {"addedBy"} |-> IF f = "addedBy" THEN u ELSE body[f]]

\* Movie.create: the schema's defaults for the paths the data leaves out.
MovieCreate(data, oid, now) ==
  [id |-> oid, addedBy |-> data.addedBy, duration |-> data.duration,
   year |-> data.year, genres |-> data.genres,
   watched |-> Field(data, "watched", FALSE),
   watchDate |-> Field(data, "watchDate", NoDate),
   rating |-> Field(data, "rating", 0), createdAt |-> now]

\* findOneAndUpdate(filter, req.body): every schema path the body names is set.
ApplyUpdate(doc, body) ==
  [f \in DOMAIN doc |-> IF Has(body, f) /\ f \notin {"id", "createdAt"}
                        THEN body[f] ELSE doc[f]]

VARIABLES
  movies,          \* the Movie collection: ObjectId -> document
  movieCount,      \* User.movieCount of each user
  totalWatchTime,  \* User.totalWatchTime of each user
  nextId,          \* the next ObjectId (also the creation clock)
  watchlist,       \* User.watchlist of each user: movie ids in push order
  users,           \* the User collection: the documents in insertion order
  memUsers,        \* the users array of the in-memory server
  req,             \* the handlers in flight, each waiting on a storage call
  res,             \* the response the last step sent (NoResp when it sent none)
  \* MovieList, the React component, and the API it calls
  clientMovies,    \* useState: movies
  loading,         \* useState: loading
  error,           \* useState: error
  searchTerm,      \* useState: searchTerm, a string as its characters
  filterGenre,     \* useState: filterGenre
  sortBy,          \* useState: sortBy
  sortOrder,       \* useState: sortOrder
  calls,           \* the component's API calls in flight
  server,          \* the movies the API's server holds, by id
  deleted          \* history: the ids whose handleDelete has succeeded

\* A handler's snap and stable fields are history, not program state: the
\* collection as its first query saw it, and whether its later queries saw
\* the same.

client == <<clientMovies, loading, error, searchTerm, filterGenre, sortBy,
            sortOrder, calls, server, deleted>>
vars == <<movies, movieCount, totalWatchTime, nextId, watchlist, users, memUsers,
          req, res, client>>
store == <<movies, movieCount, totalWatchTime, nextId>>
accounts == <<users, memUsers>>

NoBody == [duration |-> 0]
NoQuery == [page |-> Undefined, limit |-> Undefined, sort |-> Undefined,
            genre |-> Undefined, year |-> Undefined, watched |-> Undefined]
ZeroAvg == [num |-> 0, den |-> 1]
NoStats == [totalMovies |-> -1, avgRating |-> ZeroAvg, totalRuntime |-> -1,
            genres |-> {}]
NoOverview == [totalMovies |-> -1, avgRating |-> ZeroAvg, totalRuntime |-> -1,
               watchedCount |-> -1]
NoPagination == [page |-> 0, limit |-> 0, total |-> 0, pages |-> 0]

Handler(op, pc, u, id, body, q) ==
  [op |-> op, pc |-> pc, user |-> u, id |-> id, body |-> body, query |-> q,
   movie |-> NoDoc, movies |-> <<>>, total |-> 0, overview |-> NoOverview,
   topGenres |-> {}, snap |-> [i \in {} |-> NoDoc], stable |-> TRUE]
Idle == Handler("idle", "", NoUser, 0, NoBody, NoQuery)

Response(h, status, message, movie) ==
  [op |-> h.op, user |-> h.user, id |-> h.id, body |-> h.body, query |-> h.query,
   status |-> status, message |-> message, movie |-> movie, movies |-> <<>>,
   pagination |-> NoPagination, stats |-> NoStats, overview |-> NoOverview,
   topGenres |-> {}, recentYears |-> {}, stable |-> h.stable]
NoResp == Response(Idle, 0, "", NoDoc)

InFlight == BagToSet(req)
One(h) == SetToBag({h})

\* The handler answers in the step that took the request.
Answer(h, status, message, movie) ==
  /\ res' = Response(h, status, message, movie)
  /\ req' = req
  /\ UNCHANGED <<watchlist, client>>

\* The handler awaits the storage call named by h.pc.
Suspend(h) ==
  /\ BagCardinality(req) < MaxReq
  /\ req' = req (+) One(h)
  /\ res' = NoResp
  /\ UNCHANGED <<watchlist, client>>

\* The handler's last storage call returned and it answers.
Complete(h, status, message, movie) ==
  /\ req' = req (-) One(h)
  /\ res' = Response(h, status, message, movie)
  /\ UNCHANGED <<watchlist, client>>

\* The movie handlers write no user's name, email or password.
Reply(h, status, message, movie) ==
  Answer(h, status, message, movie) /\ UNCHANGED accounts

Await(h) == Suspend(h) /\ UNCHANGED accounts

Continue(h, h2) ==
  /\ req' = (req (-) One(h)) (+) One(h2)
  /\ res' = NoResp
  /\ UNCHANGED <<accounts, watchlist, client>>

Finish(h, status, message, movie) ==
  Complete(h, status, message, movie) /\ UNCHANGED accounts

\* The movies the API's server can hold, as the client reads them: _id, name,
\* description, genre, releaseYear, rating (tenths).  A string the client
\* searches is the sequence of its characters.  Movies 1 and 2 share a year
\* and a rating; movie 3 has no description and no genre.
Catalogue ==
  (1 :> [typeof |-> "object", _id |-> 1, name |-> <<"D", "u", "n">>,
         description |-> <<"s", "a">>, genre |-> "Sci-Fi",
         releaseYear |-> 2021, rating |-> 80])
  @@ (2 :> [typeof |-> "object", _id |-> 2, name |-> <<"A", "r">>,
            description |-> <<"D", "U">>, genre |-> "Drama",
            releaseYear |-> 2021, rating |-> 80])
  @@ (3 :> [typeof |-> "object", _id |-> 3, name |-> <<"u", "p">>,
            releaseYear |-> 2016, rating |-> 79])
CatalogueIds == DOMAIN Catalogue

\* const users = [{ id: 1, name: "Test User", email: "test@example.com", ... }]
TestUser == [name |-> "Test User", email |-> "test@example.com"]

Init ==
  /\ movies = [i \in {} |-> NoDoc]
  /\ movieCount = [u \in UserIds |-> 0]
  /\ totalWatchTime = [u \in UserIds |-> 0]
  /\ nextId = 1
  /\ watchlist = [u \in UserIds |-> <<>>]
  /\ users = <<>>
  /\ memUsers = <<TestUser>>
  /\ req = EmptyBag
  /\ res = NoResp
  /\ clientMovies = <<>>
  /\ loading = TRUE
  /\ error = ""
  /\ searchTerm = <<>>
  /\ filterGenre = "all"
  /\ sortBy = "name"
  /\ sortOrder = "asc"
  /\ calls = EmptyBag
  /\ server = Catalogue
  /\ deleted = {}

\* Mongoose casts the filter's _id to ObjectId and the query rejects with a
\* CastError when it cannot; the handler's catch answers 500.
CastError(id) == id = MalformedId

\* { _id: req.params.id, addedBy: req.user.id }
IdAndOwnerFilter(id, u) == id \in DOMAIN movies /\ movies[id].addedBy = u

\* ------------------------------------------------------------- createMovie
createMovie_create(u, body) ==
  LET h == Handler("createMovie", "User.findByIdAndUpdate", u, 0, body, NoQuery) IN
  IF ~validationResult(body)
  THEN Reply(h, 400, "", NoDoc) /\ UNCHANGED store
  ELSE LET movie == MovieCreate(movieData(u, body), nextId, nextId) IN
       /\ nextId <= MaxMovies
       /\ movies' = (nextId :> movie) @@ movies
       /\ nextId' = nextId + 1
       /\ Await([h EXCEPT !.movie = movie])
       /\ UNCHANGED <<movieCount, totalWatchTime>>

createMovie_inc(h) ==
  /\ h.op = "createMovie" /\ h.pc = "User.findByIdAndUpdate"
  /\ movieCount' = [movieCount EXCEPT ![h.user] = @ + 1]
  /\ totalWatchTime' = [totalWatchTime EXCEPT ![h.user] = @ + h.movie.duration]
  /\ Finish(h, 201, "Movie added successfully", h.movie)
  /\ UNCHANGED <<movies, nextId>>

\* ------------------------------------------------------------- deleteMovie
deleteMovie_findOneAndDelete(u, id) ==
  LET h == Handler("deleteMovie", "User.findByIdAndUpdate", u, id, NoBody, NoQuery) IN
  IF CastError(id)
  THEN Reply(h, 500, "Server error", NoDoc) /\ UNCHANGED store
  ELSE IF IdAndOwnerFilter(id, u)
  THEN /\ movies' = [i \in DOMAIN movies \ {id} |-> movies[i]]
       /\ Await([h EXCEPT !.movie = movies[id]])
       /\ UNCHANGED <<movieCount, totalWatchTime, nextId>>
  ELSE Reply(h, 404, "Movie not found", NoDoc) /\ UNCHANGED store

deleteMovie_inc(h) ==
  /\ h.op = "deleteMovie" /\ h.pc = "User.findByIdAndUpdate"
  /\ movieCount' = [movieCount EXCEPT ![h.user] = @ - 1]
  /\ totalWatchTime' = [totalWatchTime EXCEPT ![h.user] = @ - h.movie.duration]
  /\ Finish(h, 200, "Movie deleted successfully", NoDoc)
  /\ UNCHANGED <<movies, nextId>>

\* ------------------------------------- a counter write that rejects (C18)
\* A catch that undoes the movie write.
createMovie_incRolledBack(h) ==
  /\ h.op = "createMovie" /\ h.pc = "User.findByIdAndUpdate"
  /\ movies' = [i \in DOMAIN movies \ {h.movie.id} |-> movies[i]]
  /\ Finish(h, 500, "Server error", NoDoc)
  /\ UNCHANGED <<movieCount, totalWatchTime, nextId>>

\* await User.findByIdAndUpdate(...) rejects: catch, 500
createMovie_incRejected(h) ==
  /\ h.op = "createMovie" /\ h.pc = "User.findByIdAndUpdate"
  /\ Finish(h, 500, "Server error", NoDoc)
  /\ UNCHANGED store

deleteMovie_incRejected(h) ==
  /\ h.op = "deleteMovie" /\ h.pc = "User.findByIdAndUpdate"
  /\ Finish(h, 500, "Server error", NoDoc)
  /\ UNCHANGED store

\* ---------------------------------------------------------- addToWatchlist
\* user = await User.findById(req.user.id); the includes check; push
addToWatchlist_findById(u, id) ==
  LET h == Handler("addToWatchlist", "user.save", u, id, NoBody, NoQuery) IN
  IF \E i \in DOMAIN watchlist[u] : watchlist[u][i] = id
  THEN Reply(h, 400, "Movie already in watchlist", NoDoc) /\ UNCHANGED store
  ELSE Await(h) /\ UNCHANGED store

\* await user.save(): the pushed id is appended to the stored array ($push)
addToWatchlist_save(h) ==
  /\ h.op = "addToWatchlist" /\ h.pc = "user.save"
  /\ watchlist' = [watchlist EXCEPT ![h.user] = Append(@, h.id)]
  /\ req' = req (-) One(h)
  /\ res' = Response(h, 200, "Movie added to watchlist", NoDoc)
  /\ UNCHANGED <<store, accounts, client>>

\* ------------------------------------------------------------- updateMovie
updateMovie(u, id, body) ==
  LET h == Handler("updateMovie", "", u, id, body, NoQuery) IN
  IF ~validationResult(body)
  THEN Reply(h, 400, "", NoDoc) /\ UNCHANGED store
  ELSE IF CastError(id)
  THEN Reply(h, 500, "Server error", NoDoc) /\ UNCHANGED store
  ELSE IF IdAndOwnerFilter(id, u)
  THEN LET movie == ApplyUpdate(movies[id], body) IN
       /\ movies' = [movies EXCEPT ![id] = movie]
       /\ Reply(h, 200, "Movie updated successfully", movie)
       /\ UNCHANGED <<movieCount, totalWatchTime, nextId>>
  ELSE Reply(h, 404, "Movie not found", NoDoc) /\ UNCHANGED store

\* ---------------------------------------------------------------- getMovie
getMovie(u, id) ==
  LET h == Handler("getMovie", "", u, id, NoBody, NoQuery) IN
  /\ IF CastError(id)
     THEN Reply(h, 500, "Server error", NoDoc)
     ELSE IF IdAndOwnerFilter(id, u)
     THEN Reply(h, 200, "", movies[id])
     ELSE Reply(h, 404, "Movie not found", NoDoc)
  /\ UNCHANGED store

\* ------------------------------------------------------- toggleWatchStatus
toggleWatchStatus_findOne(u, id) ==
  LET h == Handler("toggleWatchStatus", "movie.save", u, id, NoBody, NoQuery) IN
  /\ IF CastError(id)
     THEN Reply(h, 500, "Server error", NoDoc)
     ELSE IF IdAndOwnerFilter(id, u)
     THEN Await([h EXCEPT !.movie = movies[id]])
     ELSE Reply(h, 404, "Movie not found", NoDoc)
  /\ UNCHANGED store

\* movie.watched = !movie.watched; movie.watchDate = movie.watched ? Date.now() : null
Toggled(movie) ==
  [movie EXCEPT !.watched = ~movie.watched,
                !.watchDate = IF ~movie.watched THEN DateNow ELSE NoDate]

\* movie.save() writes the paths the handler set to the document with the
\* loaded _id, whoever owns it by now; it throws when that document is gone.
toggleWatchStatus_save(h) ==
  /\ h.op = "toggleWatchStatus" /\ h.pc = "movie.save"
  /\ LET movie == Toggled(h.movie) IN
     IF h.id \in DOMAIN movies
     THEN /\ movies' = [movies EXCEPT ![h.id].watched = movie.watched,
                                      ![h.id].watchDate = movie.watchDate]
          /\ Finish(h, 200, IF movie.watched THEN "Movie marked as watched"
                                             ELSE "Movie marked as unwatched", movie)
     ELSE Finish(h, 500, "Server error", NoDoc) /\ UNCHANGED movies
  /\ UNCHANGED <<movieCount, totalWatchTime, nextId>>

\* ------------------------------------------------ create/delete only (C1)
Body(d) == [duration |-> d, year |-> 2020, genres |-> {"Action"}]
BodiesCD == {Body(1), Body(2)}

NextCD ==
  \/ \E u \in UserIds, b \in BodiesCD : createMovie_create(u, b)
  \/ \E h \in InFlight : createMovie_inc(h)
  \/ \E u \in UserIds, id \in MovieIds : deleteMovie_findOneAndDelete(u, id)
  \/ \E h \in InFlight : deleteMovie_inc(h)

SpecCD == Init /\ [][NextCD]_vars

Quiescent == req = EmptyBag
Owned(u) == {i \in DOMAIN movies : movies[i].addedBy = u}

\* C1: with every storage step succeeding, movieCount is never negative, and
\* once no request is in progress each user's movieCount is the number of
\* movies whose addedBy is that user.
C1_MovieCountTracksOwned ==
  /\ \A u \in UserIds : movieCount[u] >= 0
  /\ Quiescent => \A u \in UserIds : movieCount[u] = Cardinality(Owned(u))

\* The part of C1 that the code does keep: the count is exact at quiescence.
QuiescentCountExact ==
  Quiescent => \A u \in UserIds : movieCount[u] = Cardinality(Owned(u))

\* ------------------------- create and delete, counter writes failing or not
NextFail ==
  \/ \E u \in UserIds, b \in BodiesCD : createMovie_create(u, b)
  \/ \E h \in InFlight : createMovie_inc(h)
  \/ \E h \in InFlight : createMovie_incRejected(h)
  \/ \E u \in UserIds, id \in MovieIds : deleteMovie_findOneAndDelete(u, id)
  \/ \E h \in InFlight : deleteMovie_inc(h)
  \/ \E h \in InFlight : deleteMovie_incRejected(h)

SpecFail == Init /\ [][NextFail]_vars

\* ------------------------------------------------------- the watchlist
NextWatchlist ==
  \/ \E u \in UserIds, id \in MovieIds : addToWatchlist_findById(u, id)
  \/ \E h \in InFlight : addToWatchlist_save(h)

SpecWatchlist == Init /\ [][NextWatchlist]_vars

\* ------------------------------- create and toggle, no other write (C21)
NextToggle ==
  \/ \E u \in UserIds, b \in BodiesCD : createMovie_create(u, b)
  \/ \E h \in InFlight : createMovie_inc(h)
  \/ \E u \in UserIds, id \in MovieIds : toggleWatchStatus_findOne(u, id)
  \/ \E h \in InFlight : toggleWatchStatus_save(h)

SpecToggle == Init /\ [][NextToggle]_vars

\* --------------------------------------- create/update/delete only (C2)
NextCUD ==
  \/ \E u \in UserIds, b \in BodiesCD : createMovie_create(u, b)
  \/ \E h \in InFlight : createMovie_inc(h)
  \/ \E u \in UserIds, id \in MovieIds, b \in BodiesCD : updateMovie(u, id, b)
  \/ \E u \in UserIds, id \in MovieIds : deleteMovie_findOneAndDelete(u, id)
  \/ \E h \in InFlight : deleteMovie_inc(h)

SpecCUD == Init /\ [][NextCUD]_vars

RECURSIVE SumDuration(_)
SumDuration(S) ==
  IF S = {} THEN 0
  ELSE LET i == CHOOSE x \in S : TRUE IN movies[i].duration + SumDuration(S \ {i})

\* C2: once every createMovie, updateMovie and deleteMovie request has
\* completed, each user's totalWatchTime is the sum of the durations of the
\* movies that user owns.
C2_WatchTimeIsDurationSum ==
  Quiescent => \A u \in UserIds : totalWatchTime[u] = SumDuration(Owned(u))

\* ------------------------------------------- the movie routes by id (Spec)
Bodies == {Body(1), Body(0)}

Next ==
  \/ \E u \in UserIds : createMovie_create(u, Body(1))
  \/ \E h \in InFlight : createMovie_inc(h)
  \/ \E u \in UserIds, id \in ParamIds, b \in Bodies : updateMovie(u, id, b)
  \/ \E u \in UserIds, id \in ParamIds : deleteMovie_findOneAndDelete(u, id)
  \/ \E h \in InFlight : deleteMovie_inc(h)
  \/ \E u \in UserIds, id \in ParamIds : getMovie(u, id)
  \/ \E u \in UserIds, id \in ParamIds : toggleWatchStatus_findOne(u, id)
  \/ \E h \in InFlight : toggleWatchStatus_save(h)

Spec == Init /\ [][Next]_vars

\* ------------------------------ ownership and the watched flag (SpecOwner)
OwnerBodies ==
  {Body(1), With(Body(1), "watched", TRUE), With(Body(1), "addedBy", "u2")}

NextOwner ==
  \/ \E u \in UserIds, b \in OwnerBodies : createMovie_create(u, b)
  \/ \E h \in InFlight : createMovie_inc(h)
  \/ \E u \in UserIds, id \in MovieIds, b \in OwnerBodies : updateMovie(u, id, b)
  \/ \E u \in UserIds, id \in MovieIds : getMovie(u, id)
  \/ \E u \in UserIds, id \in MovieIds : toggleWatchStatus_findOne(u, id)
  \/ \E h \in InFlight : toggleWatchStatus_save(h)

SpecOwner == Init /\ [][NextOwner]_vars

\* ---------------------------------------------------------------- getMovies
DefaultPage == 1
DefaultLimit == 10
TopN == 5

\* A query-string value is undefined or a string; these are the numeric ones.
ToNumber(s) ==
  CASE s = "1" -> 1 [] s = "2" -> 2 [] s = "3" -> 3 [] s = "10" -> 10
    [] s = "2020" -> 2020 [] s = "2021" -> 2021

Truthy(s) == s # Undefined /\ s # ""

PageOf(q) == IF q.page = Undefined THEN DefaultPage ELSE ToNumber(q.page)
LimitOf(q) == IF q.limit = Undefined THEN DefaultLimit ELSE ToNumber(q.limit)
SortOf(q) == IF q.sort = Undefined THEN "-createdAt" ELSE q.sort

\* The query with watched taken as a truthy string instead of === 'true'.
BuildQueryWatchedTruthy(u, q) ==
  [f \in {"addedBy"} \cup (IF Truthy(q.genre) THEN {"genres"} ELSE {})
                     \cup (IF Truthy(q.year) THEN {"year"} ELSE {})
                     \cup (IF q.watched # Undefined THEN {"watched"} ELSE {}) |->
     CASE f = "addedBy" -> u
       [] f = "genres" -> q.genre
       [] f = "year" -> q.year
       [] f = "watched" -> Truthy(q.watched)]

\* let query = { addedBy: req.user.id }; then one clause per supplied filter.
BuildQuery(u, q) ==
  [f \in {"addedBy"} \cup (IF Truthy(q.genre) THEN {"genres"} ELSE {})
                     \cup (IF Truthy(q.year) THEN {"year"} ELSE {})
                     \cup (IF q.watched # Undefined THEN {"watched"} ELSE {}) |->
     CASE f = "addedBy" -> u
       [] f = "genres" -> q.genre
       [] f = "year" -> q.year
       [] f = "watched" -> (q.watched = "true")]

\* Movie.find / Movie.countDocuments: Mongoose casts the filter to the schema
\* (year: Number), and a scalar matches an array path by membership.
FindMatches(doc, query) ==
  /\ doc.addedBy = query.addedBy
  /\ Has(query, "genres") => query.genres \in doc.genres
  /\ Has(query, "year") => doc.year = ToNumber(query.year)
  /\ Has(query, "watched") => doc.watched = query.watched

\* Movie.aggregate([{ $match: query }]): a pipeline is sent as written, not
\* cast to the schema, so the string of req.query.year is compared with the
\* stored Number and equals none.
AggregateMatches(doc, query) ==
  /\ doc.addedBy = query.addedBy
  /\ Has(query, "genres") => query.genres \in doc.genres
  /\ ~Has(query, "year")
  /\ Has(query, "watched") => doc.watched = query.watched

Found(query) == {i \in DOMAIN movies : FindMatches(movies[i], query)}
Aggregated(query) == {i \in DOMAIN movies : AggregateMatches(movies[i], query)}

\* .sort(sort): by createdAt, newest first for '-createdAt'.
RECURSIVE Sorted(_, _)
Sorted(S, sort) ==
  IF S = {} THEN <<>>
  ELSE LET first == CHOOSE i \in S : \A j \in S :
                      IF sort = "-createdAt"
                      THEN movies[i].createdAt >= movies[j].createdAt
                      ELSE movies[i].createdAt <= movies[j].createdAt
       IN <<first>> \o Sorted(S \ {first}, sort)

Min(a, b) == IF a <= b THEN a ELSE b

\* A skip that is one page too far.
SkipOffByOne(page, limit) == page * limit

\* const skip = (page - 1) * limit;  .skip(skip).limit(parseInt(limit))
Skip(page, limit) == (page - 1) * limit

Window(seq, skip, limit) == SubSeq(seq, skip + 1, Min(skip + limit, Len(seq)))

\* Math.ceil(total / limit)
Ceil(total, limit) == (total + limit - 1) \div limit

RECURSIVE SumOf(_, _)
SumOf(S, f) ==
  IF S = {} THEN 0
  ELSE LET i == CHOOSE x \in S : TRUE IN movies[i][f] + SumOf(S \ {i}, f)

\* $group { _id: null, ... } over the matched set; no group when it is empty.
GroupStats(S) ==
  [totalMovies |-> Cardinality(S),
   avgRating |-> [num |-> SumOf(S, "rating"), den |-> Cardinality(S)],
   totalRuntime |-> SumOf(S, "duration"),
   genres |-> {movies[i].genres : i \in S}]

ZeroStats == [totalMovies |-> 0, avgRating |-> ZeroAvg, totalRuntime |-> 0,
              genres |-> {}]

getMovies_find(u, q) ==
  LET h == Handler("getMovies", "Movie.countDocuments", u, 0, NoBody, q)
      sorted == Sorted(Found(BuildQuery(u, q)), SortOf(q))
      page == Window(sorted, Skip(PageOf(q), LimitOf(q)), LimitOf(q))
  IN /\ Await([h EXCEPT !.movies = [k \in DOMAIN page |-> movies[page[k]]],
                        !.snap = movies])
     /\ UNCHANGED store

getMovies_countDocuments(h) ==
  /\ h.op = "getMovies" /\ h.pc = "Movie.countDocuments"
  /\ Continue(h, [h EXCEPT !.pc = "Movie.aggregate",
                           !.total = Cardinality(Found(BuildQuery(h.user, h.query))),
                           !.stable = h.stable /\ movies = h.snap])
  /\ UNCHANGED store

getMovies_aggregate(h) ==
  /\ h.op = "getMovies" /\ h.pc = "Movie.aggregate"
  /\ LET S == Aggregated(BuildQuery(h.user, h.query)) IN
     /\ req' = req (-) One(h)
     /\ res' = [Response(h, 200, "", NoDoc) EXCEPT
                  !.movies = h.movies,
                  !.pagination = [page |-> PageOf(h.query), limit |-> LimitOf(h.query),
                                  total |-> h.total,
                                  pages |-> Ceil(h.total, LimitOf(h.query))],
                  !.stats = IF S = {} THEN ZeroStats ELSE GroupStats(S),
                  !.stable = h.stable /\ movies = h.snap]
  /\ UNCHANGED <<store, accounts, watchlist, client>>

\* --------------------------------------------------------- getOverviewStats
ZeroOverview == [totalMovies |-> 0, avgRating |-> ZeroAvg, totalRuntime |-> 0,
                 watchedCount |-> 0]

GroupOverview(S) ==
  [totalMovies |-> Cardinality(S),
   avgRating |-> [num |-> SumOf(S, "rating"), den |-> Cardinality(S)],
   totalRuntime |-> SumOf(S, "duration"),
   watchedCount |-> Cardinality({i \in S : movies[i].watched})]

\* { $match: { addedBy: userId } }
MatchAddedBy(u) == {i \in DOMAIN movies : movies[i].addedBy = u}

\* $unwind genres, $group by genre, $sort count desc, $limit 5 (ties in any order)
GenreGroups(S) ==
  {[genre |-> g, count |-> Cardinality({i \in S : g \in movies[i].genres})] :
     g \in UNION {movies[i].genres : i \in S}}

\* $group by year, $sort _id desc, $limit 5
YearGroups(S) ==
  {[year |-> y, count |-> Cardinality({i \in S : movies[i].year = y})] :
     y \in {movies[i].year : i \in S}}

getOverviewStats_stats(u) ==
  LET h == Handler("getOverviewStats", "genreStats", u, 0, NoBody, NoQuery)
      S == MatchAddedBy(u)
  IN /\ Await([h EXCEPT !.overview = IF S = {} THEN ZeroOverview ELSE GroupOverview(S),
                        !.snap = movies])
     /\ UNCHANGED store

getOverviewStats_genreStats(h) ==
  /\ h.op = "getOverviewStats" /\ h.pc = "genreStats"
  /\ LET groups == GenreGroups(MatchAddedBy(h.user)) IN
     \E T \in SUBSET groups :
       /\ Cardinality(T) = Min(TopN, Cardinality(groups))
       /\ \A a \in T, b \in groups \ T : a.count >= b.count
       /\ Continue(h, [h EXCEPT !.pc = "yearStats", !.topGenres = T,
                                !.stable = h.stable /\ movies = h.snap])
  /\ UNCHANGED store

getOverviewStats_yearStats(h) ==
  /\ h.op = "getOverviewStats" /\ h.pc = "yearStats"
  /\ LET groups == YearGroups(MatchAddedBy(h.user)) IN
     /\ req' = req (-) One(h)
     /\ res' = [Response(h, 200, "", NoDoc) EXCEPT
                  !.overview = h.overview,
                  !.topGenres = h.topGenres,
                  !.recentYears =
                    {g \in groups : Cardinality({x \in groups : x.year > g.year}) < TopN},
                  !.stable = h.stable /\ movies = h.snap]
  /\ UNCHANGED <<store, accounts, watchlist, client>>

\* ------------------------------------------- the list and overview routes
BodyA == [duration |-> 1, year |-> 2020, genres |-> {"Action"}]
BodyB == [duration |-> 2, year |-> 2021, genres |-> {"Action", "Drama"},
          watched |-> TRUE, watchDate |-> DateNow, rating |-> 8]

Q(page, limit, sort, genre, year, watched) ==
  [page |-> page, limit |-> limit, sort |-> sort, genre |-> genre,
   year |-> year, watched |-> watched]

\* Reads write nothing, so one read in flight among the writers shows all a
\* read can see.
NoReadInFlight == \A h \in InFlight : h.op \notin {"getMovies", "getOverviewStats"}

PageQueries ==
  {Q(p, l, s, Undefined, Undefined, Undefined) :
     p \in {Undefined, "1", "2", "3"}, l \in {Undefined, "1", "2"},
     s \in {Undefined, "createdAt"}}

NextList ==
  \/ \E u \in UserIds : createMovie_create(u, BodyA)
  \/ \E h \in InFlight : createMovie_inc(h)
  \/ \E id \in MovieIds : deleteMovie_findOneAndDelete("u1", id)
  \/ \E h \in InFlight : deleteMovie_inc(h)
  \/ NoReadInFlight /\ \E q \in PageQueries : getMovies_find("u1", q)
  \/ \E h \in InFlight : getMovies_countDocuments(h)
  \/ \E h \in InFlight : getMovies_aggregate(h)

SpecList == Init /\ [][NextList]_vars

F(genre, year, watched) == Q(Undefined, Undefined, Undefined, genre, year, watched)

FilterQueries ==
  {F(Undefined, Undefined, Undefined),
   F("Drama", Undefined, Undefined), F("", Undefined, Undefined),
   F(Undefined, "2021", Undefined), F(Undefined, "", Undefined),
   F(Undefined, Undefined, "true"), F(Undefined, Undefined, "false"),
   F(Undefined, Undefined, "1"), F(Undefined, Undefined, ""),
   F("Drama", "2021", "true"), F("Action", "2020", "false"),
   F("Action", "2021", "false")}

NextFilter ==
  \/ \E b \in {BodyA, BodyB} : createMovie_create("u1", b)
  \/ createMovie_create("u2", BodyB)
  \/ \E h \in InFlight : createMovie_inc(h)
  \/ NoReadInFlight /\ \E q \in FilterQueries : getMovies_find("u1", q)
  \/ \E h \in InFlight : getMovies_countDocuments(h)
  \/ \E h \in InFlight : getMovies_aggregate(h)

SpecFilter == Init /\ [][NextFilter]_vars

NextStats ==
  \/ \E b \in {BodyA, BodyB} : createMovie_create("u1", b)
  \/ createMovie_create("u2", BodyB)
  \/ \E h \in InFlight : createMovie_inc(h)
  \/ \E id \in MovieIds : deleteMovie_findOneAndDelete("u1", id)
  \/ \E h \in InFlight : deleteMovie_inc(h)
  \/ NoReadInFlight /\ \E q \in FilterQueries : getMovies_find("u1", q)
  \/ \E h \in InFlight : getMovies_countDocuments(h)
  \/ \E h \in InFlight : getMovies_aggregate(h)
  \/ NoReadInFlight /\ getOverviewStats_stats("u1")
  \/ \E h \in InFlight : getOverviewStats_genreStats(h)
  \/ \E h \in InFlight : getOverviewStats_yearStats(h)

SpecStats == Init /\ [][NextStats]_vars

\* ------------------------------------------------- register, guestLogin
guestEmail == "guest@moviemaster.com"

\* const { name, email, password } = req.body
Account(email) == [name |-> "n", email |-> email, password |-> "p"]
AuthBodies ==
  {Account("a@x.com"), Account(guestEmail), Account("test@example.com"),
   [name |-> "n", password |-> "p"]}

\* !name || !email || !password
Incomplete(body) == ~(Has(body, "name") /\ Has(body, "email") /\ Has(body, "password"))

\* User.findOne({ email })
FindOneByEmail(email) == \E i \in DOMAIN users : users[i].email = email

\* The unique index on User.email: an insert of a present email is rejected
\* with a duplicate-key error.
DuplicateKey(email) == \E i \in DOMAIN users : users[i].email = email

AuthHandler(op, pc, body) == Handler(op, pc, NoUser, 0, body, NoQuery)

register_findOne(body) ==
  LET h == AuthHandler("register", "User.create", body) IN
  /\ IF Incomplete(body)
     THEN Answer(h, 400, "Please provide name, email and password", NoDoc)
     ELSE IF FindOneByEmail(body.email)
     THEN Answer(h, 400, "User already exists with this email", NoDoc)
     ELSE Suspend(h)
  /\ UNCHANGED <<store, accounts, watchlist, client>>

register_create(h) ==
  /\ h.op = "register" /\ h.pc = "User.create"
  /\ IF DuplicateKey(h.body.email)
     THEN /\ Complete(h, 500, "Server error during registration", NoDoc)
          /\ users' = users
     ELSE /\ users' = Append(users, [name |-> h.body.name, email |-> h.body.email])
          /\ Complete(h, 201, "User registered successfully", NoDoc)
  /\ UNCHANGED <<store, memUsers>>

guestLogin_findOne ==
  LET h == AuthHandler("guestLogin", "User.create", Account(guestEmail)) IN
  /\ IF FindOneByEmail(guestEmail)
     THEN Answer(h, 200, "Guest login successful", NoDoc)
     ELSE Suspend(h)
  /\ UNCHANGED <<store, accounts, watchlist, client>>

guestLogin_create(h) ==
  /\ h.op = "guestLogin" /\ h.pc = "User.create"
  /\ IF DuplicateKey(guestEmail)
     THEN /\ Complete(h, 500, "Server error during guest login", NoDoc)
          /\ users' = users
     ELSE /\ users' = Append(users, [name |-> "Guest User", email |-> guestEmail])
          /\ Complete(h, 200, "Guest login successful", NoDoc)
  /\ UNCHANGED <<store, memUsers>>

\* ------------------------------------- the in-memory server's auth routes
\* A lookup that finds no one.
userExistsNever(email) == FALSE

\* users.find(user => user.email === email)
userExists(email) == \E i \in DOMAIN memUsers : memUsers[i].email = email

\* app.post('/api/auth/register'): synchronous, so one step.
app_post_register(body) ==
  LET h == AuthHandler("app.post /api/auth/register", "", body) IN
  /\ IF Incomplete(body)
     THEN /\ Answer(h, 400, "Please provide name, email and password", NoDoc)
          /\ memUsers' = memUsers
     ELSE IF userExists(body.email)
     THEN /\ Answer(h, 400, "User already exists with this email", NoDoc)
          /\ memUsers' = memUsers
     ELSE /\ memUsers' = Append(memUsers, [name |-> body.name, email |-> body.email])
          /\ Answer(h, 201, "User registered successfully", NoDoc)
  /\ UNCHANGED <<store, users>>

\* app.post('/api/auth/guest')
app_post_guest ==
  LET h == AuthHandler("app.post /api/auth/guest", "", Account(guestEmail)) IN
  /\ memUsers' = IF userExists(guestEmail) THEN memUsers
                 ELSE Append(memUsers, [name |-> "Guest User", email |-> guestEmail])
  /\ Answer(h, 200, "Guest login successful", NoDoc)
  /\ UNCHANGED <<store, users>>

NextAuth ==
  \/ \E b \in AuthBodies : register_findOne(b)
  \/ \E h \in InFlight : register_create(h)
  \/ guestLogin_findOne
  \/ \E h \in InFlight : guestLogin_create(h)
  \/ \E b \in AuthBodies : app_post_register(b)
  \/ app_post_guest

SpecAuth == Init /\ [][NextAuth]_vars

\* ===================================================== MovieList (client)
backend == <<store, accounts, watchlist, req, res>>
MaxCalls == 2

\* ------------------------------------------------------------- JS strings
\* String.prototype.toLowerCase, on the letters the model uses.
toLowerCaseChar(c) ==
  CASE c = "A" -> "a" [] c = "D" -> "d" [] c = "U" -> "u" [] OTHER -> c
toLowerCase(str) == [i \in DOMAIN str |-> toLowerCaseChar(str[i])]

\* String.prototype.includes
includes(str, t) ==
  \E k \in 0..(Len(str) - Len(t)) : SubSeq(str, k + 1, k + Len(t)) = t

\* String.prototype.localeCompare: letters in alphabetical order whatever
\* their case; strings equal that far are ordered lower case first.
Primary(c) ==
  CASE c \in {"a", "A"} -> 1 [] c \in {"d", "D"} -> 2 [] c = "n" -> 3 [] c = "p" -> 4
    [] c = "r" -> 5 [] c = "s" -> 6 [] c \in {"u", "U"} -> 7 [] OTHER -> 8
Tertiary(c) == IF c \in {"A", "D", "U"} THEN 1 ELSE 0

\* The difference at the first place where the two differ, else of the lengths.
Lexicographic(a, b) ==
  LET differ == {k \in 1..Len(a) : k <= Len(b) /\ a[k] # b[k]}
  IN IF differ = {} THEN Len(a) - Len(b)
     ELSE LET k == CHOOSE x \in differ : \A y \in differ : x <= y
          IN a[k] - b[k]

localeCompare(a, b) ==
  LET primary == Lexicographic([i \in DOMAIN a |-> Primary(a[i])],
                               [i \in DOMAIN b |-> Primary(b[i])])
  IN IF primary # 0 THEN primary
     ELSE Lexicographic([i \in DOMAIN a |-> Tertiary(a[i])],
                        [i \in DOMAIN b |-> Tertiary(b[i])])

\* ------------------------------------------ filteredAndSortedMovies
\* An entry that is no object (a string that Object.values let in).
JunkString == [typeof |-> "string"]
\* An object that is no movie: it has none of the fields the view reads.
JunkObject == [typeof |-> "object"]

\* movie.name || '', movie.description || '', movie.genre || ''
OrEmpty(movie, f) == IF Has(movie, f) THEN movie[f] ELSE <<>>
GenreOf(movie) == IF Has(movie, "genre") THEN movie.genre ELSE ""
\* a.releaseYear || 0, a.rating || 0
OrZero(movie, f) == IF Has(movie, f) THEN movie[f] ELSE 0

\* A search that compares without lowering the case.
matchesSearchCaseSensitive(movie, term) ==
  \/ term = <<>>
  \/ includes(OrEmpty(movie, "name"), term)
  \/ includes(OrEmpty(movie, "description"), term)

matchesSearch(movie, term) ==
  \/ term = <<>>
  \/ includes(toLowerCase(OrEmpty(movie, "name")), toLowerCase(term))
  \/ includes(toLowerCase(OrEmpty(movie, "description")), toLowerCase(term))

matchesGenre(movie, genre) == genre = "all" \/ GenreOf(movie) = genre

\* movies.filter(movie => ...)
filtered(list, term, genre) ==
  LET keep(movie) == /\ movie.typeof = "object"
                     /\ matchesSearch(movie, term)
                     /\ matchesGenre(movie, genre)
  IN SelectSeq(list, keep)

\* The comparator of filtered.sort((a, b) => ...)
comparison(a, b, key) ==
  CASE key = "name" -> localeCompare(OrEmpty(a, "name"), OrEmpty(b, "name"))
    [] key = "year" -> OrZero(a, "releaseYear") - OrZero(b, "releaseYear")
    [] key = "rating" -> OrZero(a, "rating") - OrZero(b, "rating")
    [] OTHER -> 0
compare(a, b, key, order) ==
  IF order = "asc" THEN comparison(a, b, key) ELSE 0 - comparison(a, b, key)

\* Array.prototype.sort is stable: an entry comes after the entries that
\* compare less, and after those that compare equal and were before it.
arraySort(list, key, order) ==
  LET Before(j, i) ==
        LET c == compare(list[j], list[i], key, order) IN c < 0 \/ (c = 0 /\ j < i)
      place == [i \in DOMAIN list |-> 1 + Cardinality({j \in DOMAIN list : Before(j, i)})]
  IN [p \in DOMAIN list |-> list[CHOOSE i \in DOMAIN list : place[i] = p]]

filteredAndSortedMovies ==
  arraySort(filtered(clientMovies, searchTerm, filterGenre), sortBy, sortOrder)

\* ['all', ...new Set(genres)]
uniqueGenres ==
  {"all"} \cup {GenreOf(clientMovies[i]) :
                  i \in {j \in DOMAIN clientMovies : GenreOf(clientMovies[j]) # ""}}

\* ---------------------------------------------------------- UI handlers
SearchTerms == {<<>>, <<"d", "u">>, <<"U">>, <<"x">>}

\* onChange={(e) => setSearchTerm(e.target.value)}
setSearchTerm(term) ==
  /\ ~loading
  /\ searchTerm' = term
  /\ UNCHANGED <<backend, clientMovies, loading, error, filterGenre, sortBy,
                 sortOrder, calls, server, deleted>>

\* onChange={(e) => setFilterGenre(e.target.value)}: one of the options
setFilterGenre(genre) ==
  /\ ~loading
  /\ genre \in uniqueGenres
  /\ filterGenre' = genre
  /\ UNCHANGED <<backend, clientMovies, loading, error, searchTerm, sortBy,
                 sortOrder, calls, server, deleted>>

SortFields == {"name", "year", "rating"}
Flip(order) == IF order = "asc" THEN "desc" ELSE "asc"

\* A handler that leaves the order of the active key alone.
handleSortKeepsOrder(by, order, field) ==
  IF by = field THEN <<by, order>> ELSE <<field, "asc">>

\* The sortBy and sortOrder that handleSort(field) leaves.
handleSortResult(by, order, field) ==
  IF by = field THEN <<by, Flip(order)>> ELSE <<field, "asc">>

handleSort(field) ==
  /\ ~loading
  /\ sortBy' = handleSortResult(sortBy, sortOrder, field)[1]
  /\ sortOrder' = handleSortResult(sortBy, sortOrder, field)[2]
  /\ UNCHANGED <<backend, clientMovies, loading, error, searchTerm, filterGenre,
                 calls, server, deleted>>

\* ------------------------------------------------------- the API calls
\* A call of movieAPI in flight: sent, or settled and not yet continued.
Call(op, stage, id, data) == [op |-> op, stage |-> stage, id |-> id, data |-> data]
NoData == [kind |-> "none", list |-> <<>>]
InCalls == BagToSet(calls)
Settle(c, stage, data) ==
  calls' = (calls (-) One(c)) (+) One([c EXCEPT !.stage = stage, !.data = data])

\* The server's movies as a list, in id order.
RECURSIVE ListOf(_)
ListOf(coll) ==
  IF DOMAIN coll = {} THEN <<>>
  ELSE LET i == CHOOSE x \in DOMAIN coll : \A y \in DOMAIN coll : x <= y
       IN <<coll[i]>> \o ListOf([j \in DOMAIN coll \ {i} |-> coll[j]])

\* What getAllMovies may resolve with: the list itself, the list under data,
\* movies or results, an object with no array under those ({status, data:
\* {movies, ...}}, or {}), null, undefined, or a primitive.
ListKinds == {"array", "data", "movies", "results"}
NonListKinds == {"envelope", "emptyObject", "null", "undefined", "string"}

\* Object.values(data) of { status: 'success', data: { movies: [...] } }
ObjectValues(data) ==
  IF data.kind = "envelope" THEN <<JunkString, JunkObject>> ELSE <<>>

\* The branches of fetchMovies that build moviesArray; Throws when it throws.
Throws(data) == data.kind = "string"
moviesArray(data) ==
  CASE data.kind \in ListKinds -> data.list
    [] data.kind \in {"envelope", "emptyObject"} -> ObjectValues(data)
    [] data.kind \in {"null", "undefined"} -> <<>>

\* useEffect(() => { fetchMovies(); }, [fetchMovies, refreshTrigger]):
\* setLoading(true); setError(''); then the call is awaited.
fetchMovies ==
  /\ BagCardinality(calls) < MaxCalls
  /\ loading' = TRUE
  /\ error' = ""
  /\ calls' = calls (+) One(Call("getAllMovies", "sent", 0, NoData))
  /\ UNCHANGED <<backend, clientMovies, searchTerm, filterGenre, sortBy, sortOrder,
                 server, deleted>>

\* The server answers the list request, or the call fails.
api_getAllMovies(c, kind) ==
  /\ c.op = "getAllMovies" /\ c.stage = "sent"
  /\ IF kind = "reject" THEN Settle(c, "rejected", NoData)
     ELSE Settle(c, "resolved", [kind |-> kind, list |-> ListOf(server)])
  /\ UNCHANGED <<backend, clientMovies, loading, error, searchTerm, filterGenre,
                 sortBy, sortOrder, server, deleted>>

FetchFailed(c) == c.stage = "rejected" \/ Throws(c.data)

\* A catch that leaves the collection as it was.
CaughtMoviesStale(prev) == prev

\* catch (err): setMovies([])
CaughtMovies(prev) == <<>>

\* fetchMovies after the await: the try's remainder, catch, finally.
fetchMovies_settled(c) ==
  /\ c.op = "getAllMovies" /\ c.stage # "sent"
  /\ IF FetchFailed(c)
     THEN /\ error' = "Failed to load movies: ..."
          /\ clientMovies' = CaughtMovies(clientMovies)
     ELSE /\ clientMovies' = moviesArray(c.data)
          /\ error' = error
  /\ loading' = FALSE
  /\ calls' = calls (-) One(c)
  /\ UNCHANGED <<backend, searchTerm, filterGenre, sortBy, sortOrder, server, deleted>>

\* A MovieCard is rendered for each visible entry that has an _id, and only
\* while loading is false: the ids that have a card.
CardIds ==
  IF loading THEN {}
  ELSE LET visible == filteredAndSortedMovies
       IN {visible[i]._id : i \in {j \in DOMAIN visible : Has(visible[j], "_id")}}

\* handleDelete(id) up to its await
handleDelete(id) ==
  /\ BagCardinality(calls) < MaxCalls
  /\ id \in CardIds
  /\ calls' = calls (+) One(Call("deleteMovie", "sent", id, NoData))
  /\ UNCHANGED <<backend, clientMovies, loading, error, searchTerm, filterGenre,
                 sortBy, sortOrder, server, deleted>>

\* The server deletes the movie and answers, or the call fails (the movie is
\* gone already, or the request did not get through).
api_deleteMovie(c, ok) ==
  /\ c.op = "deleteMovie" /\ c.stage = "sent"
  /\ IF ok /\ c.id \in DOMAIN server
     THEN /\ server' = [i \in DOMAIN server \ {c.id} |-> server[i]]
          /\ Settle(c, "resolved", NoData)
     ELSE /\ server' = server
          /\ Settle(c, "rejected", NoData)
  /\ UNCHANGED <<backend, clientMovies, loading, error, searchTerm, filterGenre,
                 sortBy, sortOrder, deleted>>

\* A removal of the first entry, whatever its id.
WithoutFirst(list, id) == SubSeq(list, 2, Len(list))

\* prev.filter(movie => movie._id !== id)
WithoutId(list, id) ==
  LET keep(movie) == ~(Has(movie, "_id") /\ movie._id = id) IN SelectSeq(list, keep)

\* handleDelete after the await
handleDelete_settled(c) ==
  /\ c.op = "deleteMovie" /\ c.stage # "sent"
  /\ IF c.stage = "resolved"
     THEN /\ clientMovies' = WithoutId(clientMovies, c.id)
          /\ deleted' = deleted \cup {c.id}
          /\ error' = error
     ELSE /\ error' = "Failed to delete movie"
          /\ UNCHANGED <<clientMovies, deleted>>
  /\ calls' = calls (-) One(c)
  /\ UNCHANGED <<backend, loading, searchTerm, filterGenre, sortBy, sortOrder, server>>

\* The data a MovieCard's edit form submits.
UpdatedData == [rating |-> 90]

\* handleUpdate(id, updatedData) up to its await
handleUpdate(id, updatedData) ==
  /\ BagCardinality(calls) < MaxCalls
  /\ id \in CardIds
  /\ calls' = calls (+) One(Call("updateMovie", "sent", id, updatedData))
  /\ UNCHANGED <<backend, clientMovies, loading, error, searchTerm, filterGenre,
                 sortBy, sortOrder, server, deleted>>

\* The server updates the movie and answers with the updated record, or the
\* call fails.
api_updateMovie(c, ok) ==
  /\ c.op = "updateMovie" /\ c.stage = "sent"
  /\ IF ok /\ c.id \in DOMAIN server
     THEN LET updatedMovie == [server[c.id] EXCEPT !.rating = c.data.rating] IN
          /\ server' = [server EXCEPT ![c.id] = updatedMovie]
          /\ Settle(c, "resolved", updatedMovie)
     ELSE /\ server' = server
          /\ Settle(c, "rejected", NoData)
  /\ UNCHANGED <<backend, clientMovies, loading, error, searchTerm, filterGenre,
                 sortBy, sortOrder, deleted>>

\* A replacement of every entry.
ReplacedEverywhere(list, id, updatedMovie) == [i \in DOMAIN list |-> updatedMovie]

\* prev.map(movie => movie._id === id ? updatedMovie : movie)
Replaced(list, id, updatedMovie) ==
  [i \in DOMAIN list |->
     IF Has(list[i], "_id") /\ list[i]._id = id THEN updatedMovie ELSE list[i]]

\* handleUpdate after the await: the fold, or the rethrow
handleUpdate_settled(c) ==
  /\ c.op = "updateMovie" /\ c.stage # "sent"
  /\ clientMovies' = IF c.stage = "resolved"
                     THEN Replaced(clientMovies, c.id, c.data) ELSE clientMovies
  /\ calls' = calls (-) One(c)
  /\ UNCHANGED <<backend, loading, error, searchTerm, filterGenre, sortBy, sortOrder,
                 server, deleted>>

\* ------------------------------------------------ the derived view (SpecView)
\* One call at a time: the view is a function of the collection and the
\* controls, whatever the order in which the calls settled.
NextView ==
  \/ calls = EmptyBag /\ fetchMovies
  \/ \E c \in InCalls, kind \in {"array", "envelope"} : api_getAllMovies(c, kind)
  \/ \E c \in InCalls : fetchMovies_settled(c)
  \/ \E term \in SearchTerms : setSearchTerm(term)
  \/ \E genre \in {"all", "Drama", "Sci-Fi"} : setFilterGenre(genre)
  \/ \E field \in SortFields : handleSort(field)
  \/ calls = EmptyBag /\ \E id \in CardIds : handleDelete(id)
  \/ \E c \in InCalls : api_deleteMovie(c, TRUE)
  \/ \E c \in InCalls : handleDelete_settled(c)

SpecView == Init /\ [][NextView]_vars

\* ------------------------------------------ delete and refetch (SpecDelete)
NextDelete ==
  \/ fetchMovies
  \/ \E c \in InCalls, kind \in {"array", "reject"} : api_getAllMovies(c, kind)
  \/ \E c \in InCalls : fetchMovies_settled(c)
  \/ \E id \in CardIds : handleDelete(id)
  \/ \E c \in InCalls, ok \in BOOLEAN : api_deleteMovie(c, ok)
  \/ \E c \in InCalls : handleDelete_settled(c)

SpecDelete == Init /\ [][NextDelete]_vars

\* ------------------------------------------ update and refetch (SpecUpdate)
NextUpdate ==
  \/ fetchMovies
  \/ \E c \in InCalls, kind \in {"array", "reject"} : api_getAllMovies(c, kind)
  \/ \E c \in InCalls : fetchMovies_settled(c)
  \/ \E id \in CardIds : handleUpdate(id, UpdatedData)
  \/ \E c \in InCalls, ok \in BOOLEAN : api_updateMovie(c, ok)
  \/ \E c \in InCalls : handleUpdate_settled(c)

SpecUpdate == Init /\ [][NextUpdate]_vars

\* -------------------------------------------- every response (SpecFetch)
NextFetch ==
  \/ fetchMovies
  \/ \E c \in InCalls, kind \in ListKinds \cup NonListKinds \cup {"reject"} :
       api_getAllMovies(c, kind)
  \/ \E c \in InCalls : fetchMovies_settled(c)

SpecFetch == Init /\ [][NextFetch]_vars

\* Every call settles, and the continuation of a settled call runs.
SpecFetchFair ==
  /\ SpecFetch
  /\ WF_vars(\E c \in InCalls, kind \in ListKinds \cup NonListKinds \cup {"reject"} :
               api_getAllMovies(c, kind))
  /\ WF_vars(\E c \in InCalls : fetchMovies_settled(c))

\* ------------------------------------------------ who took the last step
\* The handlers a step started or moved on, and the user and operation of the
\* request the step belongs to.
Started == {h \in BagToSet(req') : CopiesIn(h, req') > CopiesIn(h, req)}
Actor == IF res' # NoResp THEN res'.user ELSE (CHOOSE h \in Started : TRUE).user
ActorOp == IF res' # NoResp THEN res'.op ELSE (CHOOSE h \in Started : TRUE).op

\* ------------------------------------------------------------------ C3
ReadIsolation ==
  /\ (res.op = "getMovie" /\ res.status = 200) => res.movie.addedBy = res.user
  /\ (res.op = "getMovies" /\ res.status = 200) =>
       \A k \in DOMAIN res.movies : res.movies[k].addedBy = res.user

WriteIsolation ==
  ActorOp \in {"updateMovie", "deleteMovie", "toggleWatchStatus"} =>
    \A id \in DOMAIN movies :
      movies[id].addedBy # Actor => id \in DOMAIN movies' /\ movies'[id] = movies[id]

\* C3: getMovies and getMovie issued by a user never return a movie whose
\* addedBy is another user, and no step of an updateMovie, deleteMovie or
\* toggleWatchStatus request issued by a user modifies or removes a movie
\* whose addedBy is another user at that step.
C3_OwnershipIsolation == [][ReadIsolation' /\ WriteIsolation]_vars

\* The read half of C3 alone.
C3_ReadsAreIsolated == ReadIsolation

\* ------------------------------------------------------------------ C4
\* C4: a movie's addedBy is the user whose createMovie request stored it,
\* whatever addedBy the body named, and no later step changes it.
C4_AddedByIsCreator ==
  [][\A id \in DOMAIN movies' :
       IF id \in DOMAIN movies
       THEN movies'[id].addedBy = movies[id].addedBy
       ELSE movies'[id].addedBy = Actor]_vars

\* The createMovie half of C4 alone.
C4_CreateIgnoresBodyAddedBy ==
  [][\A id \in DOMAIN movies' \ DOMAIN movies : movies'[id].addedBy = Actor]_vars

\* ------------------------------------------------------------------ C5
\* C5: every stored movie has a watchDate exactly when its watched flag is
\* true.
C5_WatchDateIffWatched ==
  \A id \in DOMAIN movies : (movies[id].watchDate # NoDate) <=> movies[id].watched

\* ------------------------------------------------------------------ C9
IdOps == {"getMovie", "updateMovie", "deleteMovie", "toggleWatchStatus"}
NotOwned(id, u) == ~(id \in DOMAIN movies /\ movies[id].addedBy = u)

\* The step that took a by-id request answered it at once.
AnsweredAtOnce == req' = req /\ res'.op \in IdOps

NotFound ==
  /\ AnsweredAtOnce /\ NotOwned(res'.id, res'.user)
       /\ ~(res'.op = "updateMovie" /\ ~validationResult(res'.body))
     => /\ res'.status = 404 /\ res'.message = "Movie not found"
        /\ UNCHANGED store
  /\ res' = NoResp =>
       \A h \in Started : h.op \in {"deleteMovie", "toggleWatchStatus"}
                            => ~NotOwned(h.id, h.user)

\* C9: getMovie, updateMovie (with a body that passes validation),
\* deleteMovie and toggleWatchStatus with an id that names no movie of the
\* caller answer 404 'Movie not found' and change no movie and no counter.
C9_NotFoundLeavesStoreUnchanged == [][NotFound]_vars

\* C9 for the ids that are well-formed ObjectIds.
C9_WellFormedIdNotFound == [][res'.id # MalformedId => NotFound]_vars

\* ------------------------------------------------------------------ C6
\* A getMovies response whose three queries all saw the present collection.
ListedStable == res.op = "getMovies" /\ res.status = 200 /\ res.stable

\* The place of movie i among the set M in the requested order (createdAt,
\* newest first unless sort says otherwise).
Position(i, M, sort) ==
  1 + Cardinality({j \in M : IF sort = "-createdAt"
                             THEN movies[j].createdAt > movies[i].createdAt
                             ELSE movies[j].createdAt < movies[i].createdAt})

\* The windows of pages 1..ceil(N/L) over records 1..N are disjoint and cover
\* them; page 2 with limit 10 over 15 records is records 11-15 of 2 pages.
WindowsPartition ==
  /\ \A N \in 0..4, L \in 1..3 :
       LET records == [k \in 1..N |-> k]
           Page(p) == Window(records, Skip(p, L), L)
           Elems(p) == {Page(p)[k] : k \in DOMAIN Page(p)}
           pages == Ceil(N, L)
       IN /\ UNION {Elems(p) : p \in 1..pages} = 1..N
          /\ \A p1, p2 \in 1..pages : p1 # p2 => Elems(p1) \cap Elems(p2) = {}
          /\ \A p \in 1..pages : Len(Page(p)) = Cardinality(Elems(p))
  /\ Window([k \in 1..15 |-> k], Skip(2, 10), 10) = <<11, 12, 13, 14, 15>>
  /\ Ceil(15, 10) = 2

\* C6: over an unchanging store, getMovies with page p and limit L (defaults
\* 1 and 10) over the caller's N movies returns, in sort order, exactly the
\* movies at positions (p-1)*L+1 .. min(p*L, N), with total = N and
\* pages = ceil(N/L); the pages partition the matching movies.
C6_PaginationWindow ==
  /\ WindowsPartition
  /\ ListedStable =>
       LET q == res.query
           p == IF q.page = Undefined THEN 1 ELSE ToNumber(q.page)
           L == IF q.limit = Undefined THEN 10 ELSE ToNumber(q.limit)
           sort == IF q.sort = Undefined THEN "-createdAt" ELSE q.sort
           M == Owned(res.user)
           N == Cardinality(M)
           first == (p - 1) * L + 1
           last == IF p * L <= N THEN p * L ELSE N
       IN /\ Len(res.movies) = (IF last >= first THEN last - first + 1 ELSE 0)
          /\ \A k \in DOMAIN res.movies :
               /\ res.movies[k].id \in M
               /\ res.movies[k] = movies[res.movies[k].id]
               /\ Position(res.movies[k].id, M, sort) = first + k - 1
          /\ res.pagination.page = p /\ res.pagination.limit = L
          /\ res.pagination.total = N
          /\ res.pagination.pages * L >= N /\ (res.pagination.pages - 1) * L < N

\* Page 2 of limit 1 over two movies, newest first: the older movie alone.
C6_Witness ==
  /\ ListedStable /\ res.query.page = "2" /\ res.query.limit = "1"
  /\ res.query.sort = Undefined
  /\ Cardinality(Owned(res.user)) = 2
  /\ Len(res.movies) = 1 /\ res.movies[1].id = 1
  /\ res.pagination.total = 2 /\ res.pagination.pages = 2

\* The defaults at work: no page and no limit, both movies on page 1 of 1.
C6_DefaultsWitness ==
  /\ ListedStable /\ res.query.page = Undefined /\ res.query.limit = Undefined
  /\ Len(res.movies) = 2 /\ res.pagination.page = 1 /\ res.pagination.limit = 10

\* ------------------------------------------------------------------ C7
\* A genre or year given as the empty string is an omitted one.
Supplied(v) == v # Undefined /\ v # ""

\* The movie satisfies every filter the query supplies.
Satisfies(doc, u, q) ==
  /\ doc.addedBy = u
  /\ Supplied(q.genre) => q.genre \in doc.genres
  /\ Supplied(q.year) => doc.year = ToNumber(q.year)
  /\ q.watched # Undefined => doc.watched = (q.watched = "true")

Matching(u, q) == {i \in DOMAIN movies : Satisfies(movies[i], u, q)}

\* C7: over an unchanging store, every movie getMovies returns satisfies all
\* the supplied filters (genre membership, year equality, watched = 'true'
\* or not) and is the caller's, every such movie is counted in total, and an
\* omitted parameter constrains nothing.
C7_FiltersConjunctive ==
  ListedStable =>
    /\ \A k \in DOMAIN res.movies : Satisfies(res.movies[k], res.user, res.query)
    /\ res.pagination.total = Cardinality(Matching(res.user, res.query))
    /\ {res.movies[k].id : k \in DOMAIN res.movies} = Matching(res.user, res.query)

\* Three filters at once keep one of the caller's two movies.
C7_Witness ==
  /\ ListedStable /\ res.query.genre = "Drama" /\ res.query.year = "2021"
  /\ res.query.watched = "true"
  /\ Cardinality(Owned(res.user)) = 2
  /\ Len(res.movies) = 1 /\ res.pagination.total = 1

\* watched=false (a supplied value other than 'true') selects the unwatched.
C7_WatchedFalseWitness ==
  /\ ListedStable /\ res.query.watched = "false"
  /\ Cardinality(Owned(res.user)) = 2
  /\ Len(res.movies) = 1 /\ ~res.movies[1].watched

\* ------------------------------------------------------------------ C8
OverviewStable == res.op = "getOverviewStats" /\ res.status = 200 /\ res.stable

\* C8: over an unchanging store, getMovies reports the zero-valued stats when
\* no movie matches and stats.totalMovies = the number of matching movies
\* when some do, and getOverviewStats of a user without movies reports the
\* zero-valued overview.
C8_StatsZeroOrMatchCount ==
  /\ ListedStable =>
       LET N == Cardinality(Matching(res.user, res.query)) IN
       /\ N = 0 => res.stats = ZeroStats
       /\ N > 0 => res.stats.totalMovies = N
  /\ OverviewStable /\ Owned(res.user) = {} => res.overview = ZeroOverview

\* The zero-valued halves of C8 alone.
C8_ZeroDefaults ==
  /\ ListedStable /\ Matching(res.user, res.query) = {} => res.stats = ZeroStats
  /\ OverviewStable /\ Owned(res.user) = {} => res.overview = ZeroOverview

\* C8's match count for the queries that name no year.
C8_MatchCountWithoutYear ==
  ListedStable /\ ~Supplied(res.query.year) /\ Matching(res.user, res.query) # {}
    => res.stats.totalMovies = Cardinality(Matching(res.user, res.query))

\* ------------------------------------------------------------------ C10
Unique(seq) == \A i, j \in DOMAIN seq : i # j => seq[i].email # seq[j].email
Guests(seq) == {i \in DOMAIN seq : seq[i].email = guestEmail}
Present(seq, email) == \E i \in DOMAIN seq : seq[i].email = email

RegisterOps == {"register", "app.post /api/auth/register"}
Stored(op) == IF op = "register" THEN users ELSE memUsers

\* A register whose email is stored when the request arrives.
RegisterOfPresentEmail ==
  /\ res'.op \in RegisterOps /\ req' = req
  /\ ~Incomplete(res'.body) /\ Present(Stored(res'.op), res'.body.email)

C10_GuestWitness ==
  /\ res.op = "guestLogin" /\ res.status = 500
  /\ Cardinality(Guests(users)) = 1

\* A register of a stored email was refused by the in-memory server.
C10_RefusedWitness ==
  /\ res.op = "app.post /api/auth/register" /\ res.status = 400
  /\ ~Incomplete(res.body) /\ Present(memUsers, res.body.email)

\* ============================================== the view of the collection
\* Letters that differ in case only.
CasePairs == {{"a", "A"}, {"d", "D"}, {"u", "U"}}
SameLetter(x, y) == x = y \/ {x, y} \in CasePairs
OccursIgnoringCase(t, str) ==
  \E k \in 0..(Len(str) - Len(t)) : \A i \in 1..Len(t) : SameLetter(t[i], str[k + i])

TextOf(movie, f) == IF f \in DOMAIN movie THEN movie[f] ELSE <<>>
GenreSelects(movie) ==
  \/ filterGenre = "all"
  \/ "genre" \in DOMAIN movie /\ movie.genre = filterGenre
  \/ "genre" \notin DOMAIN movie /\ filterGenre = ""
SearchSelects(movie) ==
  \/ searchTerm = <<>>
  \/ OccursIgnoringCase(searchTerm, TextOf(movie, "name"))
  \/ OccursIgnoringCase(searchTerm, TextOf(movie, "description"))
Times(list, x) == Cardinality({i \in DOMAIN list : list[i] = x})
IsObject(x) == x.typeof = "object"

\* C11: the visible list holds exactly the entries of the collection (objects;
\* a value that is no object is no movie) that the search term selects (it is
\* empty, or occurs in the name or the description whatever the case) and
\* that the genre filter selects ('all', or the entry's genre), a missing
\* field counting as empty; each as often as the collection holds it. With an
\* empty search term that is the selection of the genre filter alone.
C11_VisibleSubset ==
  LET visible == filteredAndSortedMovies IN
  /\ \A j \in DOMAIN visible : \E i \in DOMAIN clientMovies : clientMovies[i] = visible[j]
  /\ \A i \in DOMAIN clientMovies :
       LET movie == clientMovies[i] IN
       Times(visible, movie) =
         IF IsObject(movie) /\ SearchSelects(movie) /\ GenreSelects(movie)
         THEN Times(clientMovies, movie) ELSE 0
  /\ searchTerm = <<>> =>
       \A i \in DOMAIN clientMovies :
         LET movie == clientMovies[i] IN
         Times(visible, movie) =
           IF IsObject(movie) /\ GenreSelects(movie) THEN Times(clientMovies, movie) ELSE 0

\* The term 'U' shows 'Dun' (by its name), 'Ar' (by its description 'DU')
\* and 'up', and a genre filter then keeps one of them.
C11_Witness ==
  /\ searchTerm = <<"U">> /\ filterGenre = "Drama"
  /\ Len(clientMovies) = 3
  /\ Len(filteredAndSortedMovies) = 1
  /\ filteredAndSortedMovies[1]._id = 2

\* A term that occurs nowhere hides every entry.
C11_NoMatchWitness ==
  /\ searchTerm = <<"x">> /\ Len(clientMovies) = 3 /\ filteredAndSortedMovies = <<>>

\* C12: starting from (name, asc), sortOrder is always 'asc' or 'desc', and in
\* every state handleSort of the active key keeps the key and turns the order
\* into the other one, and handleSort of another key makes it the key with
\* order 'asc'.
C12_SortToggles ==
  /\ sortBy \in SortFields
  /\ sortOrder \in {"asc", "desc"}
  /\ \A field \in SortFields :
       LET after == handleSortResult(sortBy, sortOrder, field) IN
       /\ after[1] = field
       /\ after[2] \in {"asc", "desc"}
       /\ field = sortBy => after[2] # sortOrder
       /\ field # sortBy => after[2] = "asc"

\* In steps: whenever the key or the order changes, either the key stayed and
\* the order flipped, or the key changed and the order is 'asc'.
C12_SortSteps ==
  [][<<sortBy, sortOrder>>' # <<sortBy, sortOrder>> =>
       \/ sortBy' = sortBy /\ {sortOrder, sortOrder'} = {"asc", "desc"}
       \/ sortBy' # sortBy /\ sortOrder' = "asc"]_vars

\* Another key was selected, then selected again.
C12_Witness == sortBy = "year" /\ sortOrder = "desc"

Reverse(list) == [i \in DOMAIN list |-> list[Len(list) + 1 - i]]

\* C13: with the active key selected a second time (order 'desc') the visible
\* list is the reverse of the visible list for that key in order 'asc'.
C13_DescendingIsReverse ==
  sortOrder = "desc" =>
    filteredAndSortedMovies =
      Reverse(arraySort(filtered(clientMovies, searchTerm, filterGenre), sortBy, "asc"))

\* What does hold: the two lists hold the same entries, and the descending
\* one is the reverse wherever no two visible entries tie on the key.
C13_ReverseWithoutTies ==
  LET shown == filtered(clientMovies, searchTerm, filterGenre)
      asc == arraySort(shown, sortBy, "asc")
      desc == arraySort(shown, sortBy, "desc")
  IN /\ \A i \in DOMAIN shown : Times(asc, shown[i]) = Times(desc, shown[i])
     /\ (\A i, j \in DOMAIN shown : i # j => comparison(shown[i], shown[j], sortBy) # 0)
          => desc = Reverse(asc)

\* ================================================= folding the responses
HasId(movie, id) == "_id" \in DOMAIN movie /\ movie._id = id
Holds(list, id) == \E i \in DOMAIN list : HasId(list[i], id)
KeptIndices(list, id) == {i \in DOMAIN list : ~HasId(list[i], id)}
\* list' is list without its entries of that id, the others in their order.
IsRemoval(list, after, id) ==
  /\ Len(after) = Cardinality(KeptIndices(list, id))
  /\ \A i \in KeptIndices(list, id) :
       after[Cardinality({k \in KeptIndices(list, id) : k <= i})] = list[i]

\* The call whose continuation this step runs.
Continued(c, op) == c.op = op /\ c.stage # "sent" /\ calls' = calls (-) One(c)

\* C14 as stated: every successful handleDelete(id) leaves the collection
\* exactly one entry shorter, without an entry of that id, the others in
\* their order; a failed one leaves the collection unchanged and sets error.
C14_DeleteRemovesExactlyOne ==
  [][\A c \in InCalls : Continued(c, "deleteMovie") =>
       IF c.stage = "resolved"
       THEN /\ Len(clientMovies') = Len(clientMovies) - 1
            /\ ~Holds(clientMovies', c.id)
            /\ IsRemoval(clientMovies, clientMovies', c.id)
       ELSE clientMovies' = clientMovies /\ error' # ""]_vars

\* C14: every successful handleDelete(id) leaves the collection without an
\* entry of that id and the other entries unchanged in their order, which is
\* exactly one entry fewer when the collection still held the id (once) at
\* that moment and no entry fewer when it no longer did; a failed one leaves
\* the collection unchanged and sets error.
C14_DeleteRemovesId ==
  [][\A c \in InCalls : Continued(c, "deleteMovie") =>
       IF c.stage = "resolved"
       THEN /\ ~Holds(clientMovies', c.id)
            /\ IsRemoval(clientMovies, clientMovies', c.id)
            /\ Len(clientMovies') =
                 IF Holds(clientMovies, c.id) THEN Len(clientMovies) - 1
                 ELSE Len(clientMovies)
       ELSE clientMovies' = clientMovies /\ error' = "Failed to delete movie"]_vars

\* The second of three movies was deleted: the first and the third are left.
C14_Witness ==
  /\ deleted = {2} /\ calls = EmptyBag
  /\ Len(clientMovies) = 2 /\ clientMovies[1]._id = 1 /\ clientMovies[2]._id = 3

\* A delete failed.
C14_FailedWitness == error = "Failed to delete movie" /\ Len(clientMovies) = 3

\* C15: every successful handleUpdate(id, data) leaves a collection of the
\* same length in which each entry of that id is the record the server
\* returned and every other entry is what it was; a failed one leaves the
\* collection unchanged.
C15_UpdateReplacesInPlace ==
  [][\A c \in InCalls : Continued(c, "updateMovie") =>
       IF c.stage = "resolved"
       THEN /\ Len(clientMovies') = Len(clientMovies)
            /\ \A i \in DOMAIN clientMovies :
                 clientMovies'[i] =
                   IF HasId(clientMovies[i], c.id) THEN c.data ELSE clientMovies[i]
       ELSE clientMovies' = clientMovies]_vars

\* The second of three movies was updated in place.
C15_Witness ==
  /\ Len(clientMovies) = 3 /\ calls = EmptyBag
  /\ clientMovies[2]._id = 2 /\ clientMovies[2].rating = UpdatedData.rating
  /\ clientMovies[1] = Catalogue[1] /\ clientMovies[3] = Catalogue[3]

\* C20: when no fetchMovies call is in flight, the collection holds no entry
\* of an id whose handleDelete has succeeded.
C20_DeletedStaysGone ==
  (\A c \in InCalls : c.op # "getAllMovies") =>
    \A id \in deleted : ~Holds(clientMovies, id)

\* ====================================================== fetch responses
IsMovie(x) == IsObject(x) /\ "_id" \in DOMAIN x

\* C16: a fetchMovies whose response is no list of movies (null, undefined, a
\* primitive, or an object with no array under data, movies or results)
\* leaves the collection empty, and no entry of the collection is ever a
\* value that is no movie.
C16_NonListLeavesEmpty ==
  /\ [][\A c \in InCalls :
          (Continued(c, "getAllMovies") /\ c.data.kind \in NonListKinds)
            => clientMovies' = <<>>]_vars
  /\ [](\A i \in DOMAIN clientMovies : IsMovie(clientMovies[i]))

\* What does hold: null, undefined, a primitive and an object without
\* properties leave the collection empty.
C16_NullOrPrimitiveLeavesEmpty ==
  [][\A c \in InCalls :
       (Continued(c, "getAllMovies") /\ c.data.kind \in NonListKinds \ {"envelope"})
         => clientMovies' = <<>>]_vars

\* C17: a fetchMovies that fails (the call rejects, or the response is thrown
\* out as an unexpected format) leaves the collection empty, a non-empty
\* error and loading false; and whenever a fetchMovies call is in flight,
\* loading is false at some later moment.
C17_FailedFetchResets ==
  /\ [][\A c \in InCalls :
          (Continued(c, "getAllMovies") /\ (c.stage = "rejected" \/ c.data.kind = "string"))
            => clientMovies' = <<>> /\ error' # "" /\ loading' = FALSE]_vars
  /\ ((\E c \in InCalls : c.op = "getAllMovies") ~> ~loading)

\* A fetch failed after one had filled the collection.
C17_Witness ==
  /\ error = "Failed to load movies: ..." /\ ~loading /\ clientMovies = <<>>
  /\ calls = EmptyBag

\* ================================================= a failing counter write
\* The step in which createMovie or deleteMovie, having written the movie,
\* answers 500.
CounterWriteFailed(h) ==
  /\ h.op \in {"createMovie", "deleteMovie"} /\ h.pc = "User.findByIdAndUpdate"
  /\ req' = req (-) One(h)
  /\ res'.status = 500

\* C18: when the counter write of createMovie or deleteMovie fails after the
\* movie write, the handler answers 500 'Server error', the movie write is
\* not undone (no movie is removed or put back) and the owner's movieCount
\* and totalWatchTime keep their old values.
C18_CounterFailureLeavesMovieWrite ==
  [][\A h \in InFlight : CounterWriteFailed(h) =>
       /\ res'.message = "Server error"
       /\ movies' = movies
       /\ h.op = "deleteMovie" => h.movie.id \notin DOMAIN movies'
       /\ movieCount' = movieCount
       /\ totalWatchTime' = totalWatchTime]_vars

\* A create whose counter write failed: the movie is stored and the owner's
\* counters, still 0, no longer match.
C18_Witness ==
  /\ Quiescent /\ res.op = "createMovie" /\ res.status = 500
  /\ Cardinality(Owned(res.user)) = 1
  /\ movieCount[res.user] = 0 /\ totalWatchTime[res.user] = 0

\* A delete whose counter write failed: the movie is gone and the counters
\* still count it.
C18_DeleteWitness ==
  /\ Quiescent /\ res.op = "deleteMovie" /\ res.status = 500
  /\ Owned(res.user) = {}
  /\ movieCount[res.user] = 1 /\ totalWatchTime[res.user] > 0

\* ============================================================ the watchlist
\* C19: no user's watchlist holds the same id twice, and addToWatchlist of an
\* id the watchlist holds answers 400 and leaves the watchlist unchanged.
C19_WatchlistHasNoDuplicates ==
  /\ [](\A u \in UserIds : \A i, j \in DOMAIN watchlist[u] :
          watchlist[u][i] = watchlist[u][j] => i = j)
  /\ [][(res'.op = "addToWatchlist" /\ req' = req
          /\ \E i \in DOMAIN watchlist[res'.user] : watchlist[res'.user][i] = res'.id)
        => res'.status = 400 /\ watchlist' = watchlist]_vars

\* What does hold: the request for an id that is present is refused.
C19_PresentIdRefused ==
  [][(res'.op = "addToWatchlist" /\ req' = req
       /\ \E i \in DOMAIN watchlist[res'.user] : watchlist[res'.user][i] = res'.id)
     => res'.status = 400 /\ watchlist' = watchlist]_vars

\* ======================================================= toggle parity
\* The step in which a toggleWatchStatus request completes successfully.
ToggleCompleted(h) ==
  /\ h.op = "toggleWatchStatus" /\ h.pc = "movie.save"
  /\ req' = req (-) One(h)
  /\ res'.status = 200

\* C21: with no other write to the movie, the watched flag differs from its
\* initial value exactly when the number of successfully completed
\* toggleWatchStatus requests is odd, whatever the interleaving; that is,
\* every successful completion changes the stored flag (if one did not, the
\* parity would be wrong either before or after it).
C21_ToggleParity ==
  [][\A h \in InFlight : ToggleCompleted(h) =>
       movies'[h.id].watched # movies[h.id].watched]_vars

\* What does hold: a toggle whose save finds the flag as its findOne read it
\* changes the flag, so toggles that do not overlap keep the parity.
C21_ToggleFlipsWhatItRead ==
  [][\A h \in InFlight :
       (ToggleCompleted(h) /\ movies[h.id].watched = h.movie.watched)
         => movies'[h.id].watched # movies[h.id].watched]_vars

\* The answer always reports the flag the save stored.
C21_AnswerReportsStoredFlag ==
  [][\A h \in InFlight : ToggleCompleted(h) =>
       /\ res'.movie.watched = movies'[h.id].watched
       /\ res'.movie.watched # h.movie.watched]_vars
====
